---- MODULE Spec2Model ----
(***************************************************************************)
(* Active-learning Kriging reliability algorithms of otak (AK-MCS, AK-IS   *)
(* and AK-SS): the control flow of compute_proba, the U criterion and the  *)
(* result fields, with the Kriging fit, the FORM solver, the subset        *)
(* sampler and the limit-state function as nondeterministic collaborators. *)
(***************************************************************************)
EXTENDS Integers, Sequences, FiniteSets, TLC

\* ------------------------------------------------------------- bounds
MaxMC == 3
MaxDoE == 2
MaxBudget == 2
MaxPop == 3

\* ---------------------------------------------------- program constants
\* self.S = event.getThreshold(): the threshold of the event.
S == 0
\* U[list_id_evaluated] = 5e5
Sentinel == 500000
\* AK_SSAlgorithm.__init__: self.cv = 1e4
InitCvSS == 10000
\* numpy's result of x/0 for x > 0, and of 0/0.
Inf == 1000000000
NaN == -1
\* weights = [1.0] * n_MC, in the unit the weights are counted in (halves).
WeightOne == 2

None == <<>>
Variants == {"MCS", "IS", "SS"}
\* values of u_criterion: the default 2, and one above the sentinel
UCriterionVals == {2, 600000}
\* values of cv_target: one the sampler can meet, and one at the initial cv
CvTargetVals == {1, 10000}
\* (conditional mean, conditional marginal variance) pairs the Kriging result may
\* predict at a candidate: U = 1 on the failure side, U = 3 on the safe side,
\* 0/0 at the threshold, and x/0 away from it
Predictions == {<<-1, 1>>, <<3, 1>>, <<0, 0>>, <<3, 0>>}
\* the pairs at a candidate already in list_id_evaluated: failure side, safe side
EvaluatedPredictions == {<<-1, 0>>, <<3, 0>>}
\* importance weights norm_law.computePDF(x)/myImportance.computePDF(x): 0.5, 1.5
ISWeightVals == {1, 3}
\* results of the subset sampler
SamplerProbaVals == {[num |-> 0, den |-> 1], [num |-> 1, den |-> 2]}
SamplerCvVals == {1, 2}
\* numbers of true-function calls a FORM run may make
FormEvalCounts == {1, 2}

\* ------------------------------------------------------------ helpers
Idx(n) == 0 .. (n - 1)
Range(s) == {s[i] : i \in DOMAIN s}
Abs(x) == IF x < 0 THEN -x ELSE x
\* np.sqrt on the variances of Predictions
Sqrt(v) == CHOOSE r \in 0 .. v : r * r = v
\* numpy float division: x/0 is inf, 0/0 is nan (a warning, no exception)
Div(a, b) == IF b = 0 THEN (IF a = 0 THEN NaN ELSE Inf) ELSE a \div b
\* IEEE comparison: false as soon as one side is nan
Lt(a, b) == a # NaN /\ b # NaN /\ a < b
\* event.getOperator(): ot.Less
operator(y, s) == y < s

\* np.min: nan as soon as one element is nan
NpMin(U) ==
  IF \E i \in DOMAIN U : U[i] = NaN THEN NaN
  ELSE CHOOSE m \in Range(U) : \A i \in DOMAIN U : m <= U[i]
\* np.argmin: the first nan, otherwise the first index of the minimum
NpArgmin(U) ==
  IF \E i \in DOMAIN U : U[i] = NaN
  THEN CHOOSE i \in DOMAIN U : U[i] = NaN /\ \A j \in DOMAIN U : U[j] = NaN => i <= j
  ELSE CHOOSE i \in DOMAIN U :
         /\ \A j \in DOMAIN U : U[i] <= U[j]
         /\ \A j \in DOMAIN U : U[j] = U[i] => i <= j

\* the predictions of a Kriging result over n candidates. At the candidates of
\* list_id_evaluated compute_U does not read the variance, and of the mean only
\* its side of the threshold is ever read (by Pf): one pair per side there.
KrigingPredictions(n, list_id_evaluated) ==
  LET ev == Idx(n) \cap Range(list_id_evaluated)
  IN  {[i \in Idx(n) |-> IF i \in ev THEN a[i] ELSE b[i]] :
         a \in [ev -> EvaluatedPredictions], b \in [Idx(n) \ ev -> Predictions]}

\* my_krig.getConditionalMean(self.samples)
ConditionalMean(pred) == [i \in DOMAIN pred |-> pred[i][1]]
\* my_krig.getConditionalMarginalVariance(self.samples)
ConditionalMarginalVariance(pred) == [i \in DOMAIN pred |-> pred[i][2]]

\* compute_U with the sentinel given to the latest evaluated index only
compute_U_LastOnly(n, yp, yv, list_id_evaluated) ==
  [i \in Idx(n) |->
     IF list_id_evaluated # <<>> /\ i = list_id_evaluated[Len(list_id_evaluated)]
     THEN Sentinel
     ELSE Div(Abs(S - yp[i]), Sqrt(yv[i]))]

\* AK_Algorithm.compute_U, on the predictions (yp, yv) of the Kriging result
\* over the n candidates of self.samples
compute_U(n, yp, yv, list_id_evaluated) ==
  [i \in Idx(n) |->
     IF i \in Range(list_id_evaluated) THEN Sentinel
     ELSE Div(Abs(S - yp[i]), Sqrt(yv[i]))]

RECURSIVE SumTo(_, _)
SumTo(f, n) == IF n = 0 THEN 0 ELSE f[n - 1] + SumTo(f, n - 1)
\* Pf without the 1/self.n_MC factor
FailureProbability_NoMean(n, y, w) ==
  [num |-> SumTo([i \in Idx(n) |-> IF operator(y[i], S) THEN w[i] ELSE 0], n),
   den |-> WeightOne]

\* Pf = 1/self.n_MC*np.sum(np.array(int_I)*weights), as a fraction
FailureProbability(n, y, w) ==
  [num |-> SumTo([i \in Idx(n) |-> IF operator(y[i], S) THEN w[i] ELSE 0], n),
   den |-> n * WeightOne]
\* np.linspace(0,self.n_DoE-1,self.n_DoE,dtype = int).tolist()
Linspace(n) == [i \in 1 .. n |-> i - 1]

VARIABLES
  variant, n_DoE, n_MC0, max_sim, U_criterion, cv_target,
  n_MC, samples, weights, DoE_inputs, list_id_samples_evaluated,
  my_krig, y_pred, y_var_pred, U_y_pred, id_opt_U, current_min_U, nb_pt_sim,
  current_iter,
  proba, cv, nb_eval, DoE, kriging_model, pc,
  nb_calls, nb_fit, nb_score, nb_ss, ids_evaluated, next_id

config == <<variant, n_DoE, n_MC0, max_sim, U_criterion, cv_target>>
fields == <<proba, cv, nb_eval, DoE, kriging_model>>
locals == <<DoE_inputs, list_id_samples_evaluated, my_krig, y_pred, y_var_pred, U_y_pred,
            id_opt_U, current_min_U, nb_pt_sim, current_iter>>
population == <<n_MC, samples, weights, next_id>>
counters == <<nb_calls, nb_fit, nb_score, nb_ss, ids_evaluated>>
vars == <<config, fields, locals, population, counters, pc>>

\* ------------------------------------------------------------ construction
\* importance-weight vectors of the IS population: uniform low, uniform high, mixed
ISWeights(n) ==
  {[i \in Idx(n) |-> w] : w \in ISWeightVals}
    \cup {[i \in Idx(n) |-> IF i % 2 = 0 THEN 1 ELSE 3]}
\* k points never drawn before
Fresh(k) == [i \in Idx(k) |-> next_id + i]
Concat(a, na, b, nb) == [i \in Idx(na + nb) |-> IF i < na THEN a[i] ELSE b[i - na]]

\* AK_Algorithm.__init__ and AK_SSAlgorithm.__init__. No parameter is validated:
\* sim_budget = 0 and n_DoE = n_MC are accepted like any other value. Left out
\* are n_DoE > n_MC in MCS and IS (compute_U then indexes U out of range), empty
\* populations and DoEs, and negative budgets (which behave as sim_budget = 0).
Init ==
  /\ variant \in Variants
  /\ n_DoE \in 1 .. MaxDoE
  /\ n_MC0 \in 1 .. MaxMC
  /\ (variant # "SS" => n_DoE <= n_MC0)
  /\ max_sim \in 0 .. MaxBudget
  /\ U_criterion \in UCriterionVals
  /\ cv_target \in (IF variant = "SS" THEN CvTargetVals ELSE {1})
  /\ n_MC = n_MC0
  /\ samples = None
  /\ weights = None
  /\ proba = [num |-> 0, den |-> 1]
  /\ cv = IF variant = "SS" THEN InitCvSS ELSE 0
  /\ nb_eval = 0
  /\ DoE = None
  /\ kriging_model = None
  /\ DoE_inputs = None
  /\ list_id_samples_evaluated = <<>>
  /\ my_krig = None
  /\ y_pred = None
  /\ y_var_pred = None
  /\ U_y_pred = None
  /\ id_opt_U = 0
  /\ current_min_U = 0
  /\ nb_pt_sim = 0
  /\ current_iter = 0
  /\ pc = "start"
  /\ nb_calls = 0
  /\ nb_fit = 0
  /\ nb_score = 0
  /\ nb_ss = 0
  /\ ids_evaluated = {}
  /\ next_id = 1

\* ------------------------------------------------------------ MCS and IS
\* AK_MCSAlgorithm.generate_samples_and_weigts
MCS_generate_samples_and_weigts ==
  /\ pc = "start" /\ variant = "MCS"
  /\ samples' = Fresh(n_MC)
  /\ next_id' = next_id + n_MC
  /\ weights' = [i \in Idx(n_MC) |-> WeightOne]
  /\ pc' = "doe"
  /\ UNCHANGED <<config, fields, locals, n_MC, counters>>

\* AK_ISAlgorithm.generate_samples_and_weigts: FORM runs on the true
\* limit-state function before the population is drawn
IS_generate_samples_and_weigts ==
  /\ pc = "start" /\ variant = "IS"
  /\ \E k \in FormEvalCounts : nb_calls' = nb_calls + k
  /\ samples' = Fresh(n_MC)
  /\ next_id' = next_id + n_MC
  /\ weights' \in ISWeights(n_MC)
  /\ pc' = "doe"
  /\ UNCHANGED <<config, fields, locals, n_MC, nb_fit, nb_score, nb_ss, ids_evaluated>>

\* AK_Algorithm.compute_proba: the initial DoE and its true responses
InitialDoE ==
  /\ pc = "doe"
  /\ DoE_inputs' = [i \in 1 .. n_DoE |-> samples[i - 1]]
  /\ nb_calls' = nb_calls + n_DoE
  /\ ids_evaluated' = Idx(n_DoE)
  /\ list_id_samples_evaluated' = Linspace(n_DoE)
  /\ pc' = "fit"
  /\ UNCHANGED <<config, fields, population, my_krig, y_pred, y_var_pred, U_y_pred, id_opt_U,
                 current_min_U, nb_pt_sim, current_iter, nb_fit, nb_score, nb_ss>>

\* ------------------------------------------------------------ SS
\* AK_SSAlgorithm.compute_proba: the LHS DoE and its true responses
SS_InitialDoE ==
  /\ pc = "start" /\ variant = "SS"
  /\ DoE_inputs' = [i \in 1 .. n_DoE |-> next_id + i - 1]
  /\ next_id' = next_id + n_DoE
  /\ nb_calls' = nb_calls + n_DoE
  /\ current_iter' = 1
  /\ nb_pt_sim' = 0
  /\ pc' = "outer"
  /\ UNCHANGED <<config, fields, n_MC, samples, weights, list_id_samples_evaluated,
                 my_krig, y_pred, y_var_pred, U_y_pred, id_opt_U, current_min_U,
                 nb_fit, nb_score, nb_ss, ids_evaluated>>

\* the outer condition with "or" for "and"
OuterCond_Or == cv > cv_target \/ nb_pt_sim < max_sim

\* while (self.cv>self.cv_target and nb_pt_sim<self.max_sim)
OuterCond == cv > cv_target /\ nb_pt_sim < max_sim

\* first outer round: the seeded Monte Carlo population
SS_FirstRound ==
  /\ pc = "outer" /\ OuterCond /\ current_iter = 1
  /\ samples' = Fresh(n_MC)
  /\ next_id' = next_id + n_MC
  /\ list_id_samples_evaluated' = <<>>
  /\ pc' = "fit"
  /\ UNCHANGED <<config, fields, n_MC, weights, DoE_inputs, my_krig, y_pred, y_var_pred, U_y_pred,
                 id_opt_U, current_min_U, nb_pt_sim, current_iter, counters>>

\* later outer rounds: n_MC0 more points are appended to the population, which
\* is scored with the Kriging result of the previous round
SS_NextRound ==
  /\ pc = "outer" /\ OuterCond /\ current_iter # 1
  /\ n_MC + n_MC0 <= MaxPop
  /\ samples' = Concat(samples, n_MC, Fresh(n_MC0), n_MC0)
  /\ next_id' = next_id + n_MC0
  /\ n_MC' = n_MC + n_MC0
  /\ \E pred \in KrigingPredictions(n_MC', list_id_samples_evaluated) :
       /\ y_pred' = ConditionalMean(pred)
       /\ y_var_pred' = ConditionalMarginalVariance(pred)
       /\ U_y_pred' = compute_U(n_MC', y_pred', y_var_pred', list_id_samples_evaluated)
  /\ id_opt_U' = NpArgmin(U_y_pred')
  /\ current_min_U' = NpMin(U_y_pred')
  /\ list_id_samples_evaluated' = Append(list_id_samples_evaluated, id_opt_U')
  /\ nb_score' = nb_score + 1
  /\ pc' = "loop"
  /\ UNCHANGED <<config, fields, weights, DoE_inputs, my_krig, nb_pt_sim, current_iter,
                 nb_calls, nb_fit, nb_ss, ids_evaluated>>

\* the outer loop ends: return
SS_Return ==
  /\ pc = "outer" /\ ~OuterCond
  /\ pc' = "done"
  /\ UNCHANGED <<config, fields, locals, population, counters>>

\* ------------------------------------------------------------ shared engine
\* algokriging.run(); my_krig = algokriging.getResult(): the first fit, which
\* either returns a result fitted on the DoE or raises
KrigingFit ==
  /\ pc = "fit"
  /\ \/ /\ my_krig' = DoE_inputs
        /\ nb_fit' = nb_fit + 1
        /\ pc' = "score"
     \/ /\ pc' = "raised"
        /\ UNCHANGED <<my_krig, nb_fit>>
  /\ UNCHANGED <<config, fields, population, DoE_inputs, list_id_samples_evaluated,
                 y_pred, y_var_pred, U_y_pred, id_opt_U, current_min_U, nb_pt_sim, current_iter,
                 nb_calls, nb_score, nb_ss, ids_evaluated>>

\* the first scoring pass: compute_U, argmin, min, and the append of id_opt_U
\* that precedes the refinement loop
InitialScore ==
  /\ pc = "score"
  /\ \E pred \in KrigingPredictions(n_MC, list_id_samples_evaluated) :
       /\ y_pred' = ConditionalMean(pred)
       /\ y_var_pred' = ConditionalMarginalVariance(pred)
       /\ U_y_pred' = compute_U(n_MC, y_pred', y_var_pred', list_id_samples_evaluated)
  /\ id_opt_U' = NpArgmin(U_y_pred')
  /\ current_min_U' = NpMin(U_y_pred')
  /\ nb_pt_sim' = 0
  /\ list_id_samples_evaluated' = Append(list_id_samples_evaluated, id_opt_U')
  /\ nb_score' = nb_score + 1
  /\ pc' = "loop"
  /\ UNCHANGED <<config, fields, population, DoE_inputs, my_krig, current_iter,
                 nb_calls, nb_fit, nb_ss, ids_evaluated>>

\* the loop condition with the budget test off by one
LoopCond_BudgetInclusive == nb_pt_sim <= max_sim /\ Lt(current_min_U, U_criterion)
\* the loop condition without the budget test
LoopCond_NoBudget == Lt(current_min_U, U_criterion)

\* while nb_pt_sim<self.max_sim and current_min_U < self.U_criterion
LoopCond == nb_pt_sim < max_sim /\ Lt(current_min_U, U_criterion)

\* the new point put at the head of the DoE
Evaluate_Prepend ==
  /\ pc = "loop" /\ LoopCond
  /\ nb_calls' = nb_calls + 1
  /\ ids_evaluated' = ids_evaluated \cup {id_opt_U}
  /\ DoE_inputs' = <<samples[id_opt_U]>> \o DoE_inputs
  /\ DoE' = IF DoE = None THEN None ELSE DoE_inputs'
  /\ pc' = "refit"
  /\ UNCHANGED <<config, proba, cv, nb_eval, kriging_model, population,
                 list_id_samples_evaluated, my_krig, y_pred, y_var_pred, U_y_pred,
                 id_opt_U, current_min_U, nb_pt_sim, current_iter, nb_fit, nb_score,
                 nb_ss>>

\* loop body, first part: the true function at samples[id_opt_U], appended to
\* the DoE (self.DoE, once set, is the same object as DoE_inputs)
Evaluate ==
  /\ pc = "loop" /\ LoopCond
  /\ nb_calls' = nb_calls + 1
  /\ ids_evaluated' = ids_evaluated \cup {id_opt_U}
  /\ DoE_inputs' = Append(DoE_inputs, samples[id_opt_U])
  /\ DoE' = IF DoE = None THEN None ELSE DoE_inputs'
  /\ pc' = "refit"
  /\ UNCHANGED <<config, proba, cv, nb_eval, kriging_model, population,
                 list_id_samples_evaluated, my_krig, y_pred, y_var_pred, U_y_pred, id_opt_U,
                 current_min_U, nb_pt_sim, current_iter, nb_fit, nb_score, nb_ss>>

\* the SS round left without a sampler run once the budget is used up
LoopExit_SkipsSampler ==
  /\ pc = "loop" /\ ~LoopCond
  /\ pc' = IF variant = "SS"
           THEN (IF nb_pt_sim >= max_sim THEN "outer" ELSE "subset")
           ELSE "done"
  /\ UNCHANGED <<config, fields, locals, population, counters>>

\* the loop condition is false: return (MCS, IS) or go on to the subset sampler
LoopExit ==
  /\ pc = "loop" /\ ~LoopCond
  /\ pc' = IF variant = "SS" THEN "subset" ELSE "done"
  /\ UNCHANGED <<config, fields, locals, population, counters>>

\* the refit whose result is not taken: my_krig stays the previous result
Refit_KeepsOldResult ==
  /\ pc = "refit"
  /\ \/ /\ nb_fit' = nb_fit + 1
        /\ pc' = "rescore"
     \/ /\ pc' = "raised"
        /\ UNCHANGED nb_fit
  /\ UNCHANGED <<config, fields, population, DoE_inputs, list_id_samples_evaluated,
                 my_krig, y_pred, y_var_pred, U_y_pred, id_opt_U, current_min_U,
                 nb_pt_sim, current_iter, nb_calls, nb_score, nb_ss, ids_evaluated>>
\* the refit whose failure is swallowed: the loop body goes on
Refit_GoesOn ==
  /\ pc = "refit"
  /\ \/ /\ my_krig' = DoE_inputs
        /\ nb_fit' = nb_fit + 1
     \/ UNCHANGED <<my_krig, nb_fit>>
  /\ pc' = "rescore"
  /\ UNCHANGED <<config, fields, population, DoE_inputs, list_id_samples_evaluated,
                 y_pred, y_var_pred, U_y_pred, id_opt_U, current_min_U, nb_pt_sim,
                 current_iter, nb_calls, nb_score, nb_ss, ids_evaluated>>

\* loop body, second part: the refit on the grown DoE, which returns or raises
Refit ==
  /\ pc = "refit"
  /\ \/ /\ my_krig' = DoE_inputs
        /\ nb_fit' = nb_fit + 1
        /\ pc' = "rescore"
     \/ /\ pc' = "raised"
        /\ UNCHANGED <<my_krig, nb_fit>>
  /\ UNCHANGED <<config, fields, population, DoE_inputs, list_id_samples_evaluated,
                 y_pred, y_var_pred, U_y_pred, id_opt_U, current_min_U, nb_pt_sim, current_iter,
                 nb_calls, nb_score, nb_ss, ids_evaluated>>

\* loop body, last part: compute_U, min, argmin, the counter, the append, and
\* the result fields (the probability only in MCS and IS)
Rescore ==
  /\ pc = "rescore"
  /\ \E pred \in KrigingPredictions(n_MC, list_id_samples_evaluated) :
       /\ y_pred' = ConditionalMean(pred)
       /\ y_var_pred' = ConditionalMarginalVariance(pred)
       /\ U_y_pred' = compute_U(n_MC, y_pred', y_var_pred', list_id_samples_evaluated)
  /\ current_min_U' = NpMin(U_y_pred')
  /\ id_opt_U' = NpArgmin(U_y_pred')
  /\ nb_pt_sim' = nb_pt_sim + 1
  /\ list_id_samples_evaluated' = Append(list_id_samples_evaluated, id_opt_U')
  /\ proba' = IF variant = "SS" THEN proba
              ELSE FailureProbability(n_MC, y_pred', weights)
  /\ nb_eval' = n_DoE + nb_pt_sim'
  /\ DoE' = DoE_inputs
  /\ kriging_model' = my_krig
  /\ nb_score' = nb_score + 1
  /\ pc' = "loop"
  /\ UNCHANGED <<config, cv, population, DoE_inputs, my_krig, current_iter,
                 nb_calls, nb_fit, nb_ss, ids_evaluated>>

\* SS_kr.run() on the metamodel of my_krig: proba, cv, and the population
\* replaced by the sampler's last-level sample. The predictions and scores of
\* the replaced population are dead from here on (lines 432-434 and 422-424
\* assign them again before any read), and are dropped from the state.
SubsetSampling ==
  /\ pc = "subset"
  /\ proba' \in SamplerProbaVals
  /\ cv' \in SamplerCvVals
  /\ samples' = Fresh(n_MC)
  /\ next_id' = next_id + n_MC
  /\ current_iter' = current_iter + 1
  /\ nb_ss' = nb_ss + 1
  /\ y_pred' = None
  /\ y_var_pred' = None
  /\ U_y_pred' = None
  /\ id_opt_U' = 0
  /\ current_min_U' = 0
  /\ pc' = "outer"
  /\ UNCHANGED <<config, nb_eval, DoE, kriging_model, n_MC, weights, DoE_inputs,
                 list_id_samples_evaluated, my_krig, nb_pt_sim, nb_calls, nb_fit,
                 nb_score, ids_evaluated>>

Next ==
  \/ MCS_generate_samples_and_weigts
  \/ IS_generate_samples_and_weigts
  \/ InitialDoE
  \/ SS_InitialDoE
  \/ SS_FirstRound
  \/ SS_NextRound
  \/ SS_Return
  \/ KrigingFit
  \/ InitialScore
  \/ Evaluate
  \/ LoopExit
  \/ Refit
  \/ Rescore
  \/ SubsetSampling

Spec == Init /\ [][Next]_vars

\* AK_Algorithm.compute_proba alone, as run by AK_MCSAlgorithm and AK_ISAlgorithm
InitBase == Init /\ variant # "SS"
NextBase ==
  \/ MCS_generate_samples_and_weigts
  \/ IS_generate_samples_and_weigts
  \/ InitialDoE
  \/ KrigingFit
  \/ InitialScore
  \/ Evaluate
  \/ LoopExit
  \/ Refit
  \/ Rescore
\* compute_proba is one sequential call: a step that can be taken is taken
FairSpecBase == InitBase /\ [][NextBase]_vars /\ WF_vars(NextBase)

\* ------------------------------------------------------------ properties
FracLeq(p, q) == p.num * q.den <= q.num * p.den
FracEq(p, q) == p.num * q.den = q.num * p.den
One == [num |-> 1, den |-> 1]
Terminal == pc \in {"done", "raised"}

\* C1: in every reachable state of every variant, the number of points submitted
\* to the true limit-state function so far is at most n_DoE + sim_budget.
C1_EvaluationsWithinBudget == nb_calls <= n_DoE + max_sim

\* C2: after compute_proba returns, getDoE() holds n_DoE + nb_pt_sim points,
\* nb_pt_sim being the refinement iterations of the run, at most sim_budget.
C2_DoESizeAfterReturn ==
  pc = "done" => /\ DoE # None
                 /\ Len(DoE) = n_DoE + nb_pt_sim
                 /\ nb_pt_sim <= max_sim

\* C3: every scoring pass gives the sentinel to every population index evaluated
\* so far in the run, in every variant and across SS outer rounds, and the list
\* of excluded indices never loses an element.
C3_ExcludedStaysExcluded ==
  [][/\ nb_score' # nb_score => \A i \in ids_evaluated' : U_y_pred'[i] = Sentinel
     /\ Range(list_id_samples_evaluated) \subseteq Range(list_id_samples_evaluated')
     /\ ids_evaluated \subseteq ids_evaluated']_vars
\* an SS run in a later outer round, scored again with evaluated indices excluded
C3_Witness ==
  /\ variant = "SS" /\ current_iter >= 2 /\ pc = "loop"
  /\ ids_evaluated # {}
  /\ \A i \in ids_evaluated : U_y_pred[i] = Sentinel

\* C4: at the head of the refinement loop the true function is evaluated if and
\* only if fewer than sim_budget refinement evaluations were made and the minimum
\* score over the population is below u_criterion; otherwise the loop is left
\* without an evaluation; and no other step of the refinement evaluates.
C4_EvaluateIffBudgetAndScore ==
  [][/\ pc = "loop" =>
          ((nb_calls' = nb_calls + 1 /\ pc' = "refit")
             <=> (nb_pt_sim < max_sim /\ Lt(NpMin(U_y_pred), U_criterion)))
     /\ (pc = "loop" /\ pc' # "refit") =>
          (nb_calls' = nb_calls /\ DoE_inputs' = DoE_inputs /\ pc' \in {"done", "subset"})
     /\ pc \notin {"start", "doe", "loop"} => nb_calls' = nb_calls]_vars
\* the budget ran out while the minimum score was still below u_criterion
C4_Witness ==
  /\ pc = "done" /\ max_sim > 0 /\ nb_pt_sim = max_sim
  /\ Lt(NpMin(U_y_pred), U_criterion)

\* C5: in SS, at the head of the outer loop with cv <= cv_target or with
\* nb_pt_sim >= sim_budget, compute_proba returns: no candidates are drawn, no
\* score, no fit, no evaluation and no sampler run follow, and nothing follows
\* the return.
C5_NoRoundAfterStop ==
  [][/\ (variant = "SS" /\ pc = "outer" /\ (cv <= cv_target \/ nb_pt_sim >= max_sim)) =>
          (pc' = "done" /\ UNCHANGED <<population, counters, locals, fields>>)
     /\ pc = "done" => pc' = "done"]_vars
\* returned after a round that met the CV target, with budget left
C5_Witness ==
  /\ variant = "SS" /\ pc = "done" /\ current_iter >= 2
  /\ cv <= cv_target /\ nb_pt_sim < max_sim /\ nb_ss >= 1

\* C6: an MCS or IS run reaches a terminal state (it returns, or a collaborator
\* raised), and never makes more than sim_budget refinement iterations.
C6_Terminates ==
  /\ [](variant # "SS" => nb_pt_sim <= max_sim)
  /\ <>(variant # "SS" /\ Terminal)
\* returned after exactly sim_budget >= 2 refinement iterations
C6_Witness ==
  variant # "SS" /\ pc = "done" /\ max_sim >= 2 /\ nb_pt_sim = max_sim

\* C7: the SS outer loop terminates whatever the scores and the CVs are. The loop
\* condition bounds nothing but nb_pt_sim, so termination for every sequence of
\* CVs needs every round that leaves the loop running to have used budget: at the
\* loop head, a loop that goes on has started at most nb_pt_sim + 1 rounds.
C7_OuterRoundsUseBudget ==
  (variant = "SS" /\ pc = "outer" /\ OuterCond) => current_iter <= nb_pt_sim + 1

\* C8: an MCS run whose first scoring pass gives a minimum >= u_criterion returns
\* after the initial DoE only, and its proba is the weighted indicator average of
\* the surrogate mean over the population.
C8_ConfidentSurrogateProba ==
  (variant = "MCS" /\ pc = "done" /\ nb_score = 1 /\ ~Lt(NpMin(U_y_pred), U_criterion)) =>
     /\ nb_calls = n_DoE
     /\ FracEq(proba, FailureProbability(n_MC, y_pred, weights))

C10_ConfigurationErrorRejected ==
  (max_sim <= 0 \/ n_DoE >= n_MC0 \/ n_MC0 <= 0) =>
     (nb_calls = 0 /\ nb_fit = 0 /\ nb_score = 0)

\* the indices that were excluded at the latest scoring pass: the index list less
\* the index that was appended after it
ExcludedAtLastScore ==
  SubSeq(list_id_samples_evaluated, 1, Len(list_id_samples_evaluated) - 1)

\* C11: after an MCS or IS run returned, the fields the accessors read tell which
\* stopping condition fired: every other outcome of the last scoring pass that
\* ends the run with the same fields ends it for the same reason (minimum score
\* still below u_criterion with the budget used up, or criterion satisfied).
C11_StoppingReasonVisible ==
  (variant # "SS" /\ pc = "done") =>
     \A pred \in KrigingPredictions(n_MC, ExcludedAtLastScore) :
        LET U == compute_U(n_MC, ConditionalMean(pred),
                           ConditionalMarginalVariance(pred), ExcludedAtLastScore)
            sameFields ==
              \/ nb_score = 1
              \/ FailureProbability(n_MC, ConditionalMean(pred), weights) = proba
            returns == nb_pt_sim >= max_sim \/ ~Lt(NpMin(U), U_criterion)
        IN  (sameFields /\ returns) =>
               (Lt(NpMin(U), U_criterion) <=> Lt(current_min_U, U_criterion))

\* C12: a run that returned has evaluated its initial DoE, fitted the surrogate
\* on it and scored the population at least once.
C12_FitAndScoreBeforeReturn ==
  pc = "done" => (nb_calls >= n_DoE /\ nb_fit >= 1 /\ nb_score >= 1)

\* C13: every scoring pass and every subset-sampler run uses a surrogate that
\* was fitted on the DoE as it stands at that step: the DoE the surrogate was
\* fitted on is the current DoE, after the step as before it.
C13_SurrogateFittedOnCurrentDoE ==
  [][(nb_score' # nb_score \/ nb_ss' # nb_ss) =>
        (my_krig # None /\ my_krig = DoE_inputs /\ my_krig' = DoE_inputs')]_vars
\* an SS round k > 1 that scored again after a refinement of that round
C13_Witness ==
  /\ variant = "SS" /\ current_iter >= 2 /\ pc = "loop"
  /\ nb_score >= 4 /\ Len(DoE_inputs) >= n_DoE + 2 /\ my_krig = DoE_inputs

\* C14: a step that calls the true function during refinement calls it once and
\* appends exactly the selected point at the end of the DoE; no other step
\* changes the DoE once it is initialised, and at the head of the refinement
\* loop the DoE holds n_DoE + nb_pt_sim points.
C14_OnePointAppendedPerIteration ==
  /\ [][/\ (pc \notin {"start", "doe"} /\ nb_calls' # nb_calls) =>
             /\ pc = "loop" /\ nb_calls' = nb_calls + 1
             /\ DoE_inputs' = Append(DoE_inputs, samples[id_opt_U])
        /\ (pc \notin {"start", "doe"} /\ DoE_inputs' # DoE_inputs) =>
             /\ nb_calls' = nb_calls + 1
             /\ DoE_inputs' = Append(DoE_inputs, samples[id_opt_U])]_vars
  /\ [](pc = "loop" => Len(DoE_inputs) = n_DoE + nb_pt_sim)
\* two refinement iterations done
C14_Witness ==
  pc = "loop" /\ nb_pt_sim = 2 /\ Len(DoE_inputs) = n_DoE + 2 /\ nb_calls >= n_DoE + 2

\* C15: the index submitted to the true function at a refinement step has not
\* been evaluated before, is not excluded, and has the least score among the
\* non-excluded indices.
C15_SelectsLeastUnevaluated ==
  [][(pc = "loop" /\ pc' = "refit") =>
        /\ id_opt_U \notin ids_evaluated
        /\ id_opt_U \notin Range(ExcludedAtLastScore)
        /\ \A j \in Idx(n_MC) \ Range(ExcludedAtLastScore) :
              ~Lt(U_y_pred[j], U_y_pred[id_opt_U])]_vars

\* C16: a fit that fails aborts the run: the failing step changes nothing but
\* the position, and no step follows it.
C16_FitFailureAborts ==
  [][/\ (pc \in {"fit", "refit"} /\ nb_fit' = nb_fit) =>
          (pc' = "raised" /\ UNCHANGED <<config, fields, locals, population, counters>>)
     /\ pc = "raised" => UNCHANGED vars]_vars
\* a refit failed during refinement
C16_Witness ==
  pc = "raised" /\ nb_fit >= 1 /\ nb_calls > n_DoE /\ Len(DoE_inputs) > Len(my_krig)

\* C17: in SS, proba and cv change only in a subset-sampler run, which happens
\* after the inner loop stopped, on the surrogate fitted on the current DoE, and
\* sets them to values of the sampler; between rounds and on return, one sampler
\* run per round started has been made.
C17_SamplerOncePerRound ==
  /\ [][variant = "SS" =>
          /\ (nb_ss' # nb_ss) =>
                /\ pc = "subset" /\ nb_ss' = nb_ss + 1
                /\ (nb_pt_sim >= max_sim \/ ~Lt(current_min_U, U_criterion))
                /\ my_krig = DoE_inputs /\ my_krig # None
                /\ proba' \in SamplerProbaVals /\ cv' \in SamplerCvVals
          /\ (proba' # proba \/ cv' # cv) => nb_ss' = nb_ss + 1]_vars
  /\ [](variant = "SS" /\ pc \in {"outer", "done"} =>
          /\ nb_ss = current_iter - 1
          /\ nb_score >= 1 => nb_ss >= 1
          /\ nb_ss >= 1 => (my_krig = DoE_inputs /\ proba \in SamplerProbaVals
                            /\ cv \in SamplerCvVals))
\* returned after two rounds, the second one with a refinement
C17_Witness ==
  /\ variant = "SS" /\ pc = "done" /\ nb_ss = 2
  /\ Len(DoE_inputs) > n_DoE /\ my_krig = DoE_inputs

\* C18: after a scoring pass, a non-excluded candidate with predicted variance
\* zero has a score that is a number and is at least the excluded sentinel.
C18_ZeroVarianceIsCertain ==
  (U_y_pred # None) =>
     \A i \in Idx(n_MC) \ Range(ExcludedAtLastScore) :
        y_var_pred[i] = 0 => (U_y_pred[i] # NaN /\ U_y_pred[i] >= Sentinel)

\* C19: at every scoring pass, every index that is excluded is the index of a
\* candidate of the scored population that the true function has evaluated and
\* that is in the DoE.
C19_ExcludedWereEvaluated ==
  [][nb_score' # nb_score =>
        \A k \in 1 .. Len(list_id_samples_evaluated) :
           /\ list_id_samples_evaluated[k] \in ids_evaluated
           /\ samples'[list_id_samples_evaluated[k]] \in Range(DoE_inputs)]_vars

\* C20: after compute_proba returned, getSimBudget() is the number of
\* true-function evaluations of the loop, n_DoE + nb_pt_sim, and getDoE() and
\* getKrigingModel() are the DoE and the surrogate of the final state.
C20_AccessorsReflectFinalState ==
  pc = "done" =>
     /\ nb_eval = n_DoE + nb_pt_sim
     /\ DoE = DoE_inputs
     /\ kriging_model = my_krig /\ kriging_model # None
====
